---- MODULE Spec2Model ----
(***************************************************************************)
(* group_texts of 11_train_gptj_smp_tensor_parallel_notebook.ipynb, and    *)
(* the datasets.map call that applies it to the tokenized dataset batch by *)
(* batch.                                                                  *)
(*                                                                         *)
(* Python lists of token ids are objects: the model keeps them in `heap`,  *)
(* a function from addresses to sequences of integers, so that aliasing    *)
(* between two lists and in-place changes of a list can be told apart from *)
(* copies.  An address is <<owner, n>>: owner 0 holds the records the      *)
(* tokenizer produced, owner s the lists allocated by the invocation of    *)
(* group_texts on batch s.  Dictionaries and the outer lists of a          *)
(* dictionary are values: a function from field names to sequences of      *)
(* addresses.                                                              *)
(*                                                                         *)
(* The steps of the notebook around the map call (choice of block_size,    *)
(* choice of the splits, staging of the JSON files, channels, experiment,  *)
(* estimator, fit) are modelled as a run of the cells top to bottom that   *)
(* an exception stops; what lies outside the notebook (shell, S3, the      *)
(* experiment service) is a set of files, a set of objects, a set of       *)
(* names, and the sequence of calls made.                                  *)
(***************************************************************************)
EXTENDS Integers, Sequences, FiniteSets, TLC

\* Bounds of the model.
MaxRecords == 3     \* records in the tokenized dataset
MaxRecLen == 3      \* token ids in one record
MaxBlock == 3       \* largest block_size
BatchSize == 2      \* records handed to one call of group_texts by map
MaxRuns == 2        \* executions of the map call
NumProc == 2        \* invocations in flight when map runs with num_proc > 1

VARIABLES
    block_size,             \* the notebook global read by group_texts
    num_proc,               \* how many invocations map keeps in flight
    features,               \* the field names of the tokenized dataset, in order
    tokenized_datasets,     \* field name -> sequence of records (by value, immutable)
    examples,               \* batch -> (field name -> sequence of record addresses)
    heap,                   \* address -> list of integers
    pc,                     \* batch -> position of its invocation
    map_runs,               \* executions of the map call started
    allocated,              \* batch -> lists allocated by its invocations
    concatenated_examples,  \* batch -> local of the invocation
    total_length,           \* batch -> local of the invocation
    result,                 \* batch -> local of the invocation
    bound,                  \* batch -> names of the locals that are bound
    error,                  \* batch -> exception raised by the invocation
    returned,               \* batch -> the dictionary the invocation returned
    outputs                 \* batch -> outcome of each finished call, by value

\* The notebook around the map call, from the choice of block_size to fit.
VARIABLES
    cell,                   \* the step of the notebook that runs next
    exception,              \* the exception that stopped the run, or "none"
    model_max_length,       \* tokenizer.model_max_length
    use_fsx,                \* the switch of the FSx cells
    hyperparameters,        \* the dictionary of that name
    splits,                 \* the split names of tokenized_datasets
    short_batch,            \* a batch concatenates to fewer than block_size tokens
    globals,                \* name -> value of the globals bound by the steps
    files,                  \* the local files
    s3,                     \* the objects copied to S3
    experiments,            \* the experiment names the service knows
    calls                   \* the calls made to libraries and to the shell, in order

\* The state of the map call and of group_texts, block_size apart.
gtvars == <<num_proc, features, tokenized_datasets, examples, heap, pc,
            map_runs, allocated, concatenated_examples, total_length, result, bound,
            error, returned, outputs>>

\* The state of the notebook's other steps.
nbvars == <<cell, exception, model_max_length, use_fsx, hyperparameters, splits,
            short_batch, globals, files, s3, experiments, calls>>

vars == <<block_size, gtvars, nbvars>>

----------------------------------------------------------------------------
\* Python primitives used by group_texts.

Min(a, b) == IF a <= b THEN a ELSE b

RECURSIVE Flatten(_)
Flatten(seqs) ==
    IF seqs = <<>> THEN <<>> ELSE Head(seqs) \o Flatten(Tail(seqs))

\* The lists that a sequence of addresses refers to.
Deref(h, refs) == [i \in 1..Len(refs) |-> h[refs[i]]]

\* A dictionary of lists of lists, by value.
DerefDict(h, d) == [k \in DOMAIN d |-> Deref(h, d[k])]

\* A variant of sum that extends the first operand in place.
SumInPlace(h, refs) ==
    [val  |-> Flatten(Deref(h, refs)),
     heap |-> IF refs = <<>> THEN h
              ELSE [h EXCEPT ![refs[1]] = Flatten(Deref(h, refs))]]

\* sum(refs, []): a new list, the operands in order; no operand is changed.
PySum(h, refs) ==
    [val |-> Flatten(Deref(h, refs)), heap |-> h]

\* a // b of Python: the floor of a / b, b # 0.
FloorDiv(a, b) == IF b > 0 THEN a \div b ELSE (0 - a) \div (0 - b)

\* A variant of the truncation that keeps the remainder.
KeepRemainder(total, bs) == total

\* (total_length // block_size) * block_size
UsableLength(total, bs) == FloorDiv(total, bs) * bs

\* list(range(start, stop, step)), step # 0.
Range(start, stop, step) ==
    LET n == IF step > 0
             THEN (IF stop > start THEN (stop - start + step - 1) \div step ELSE 0)
             ELSE (IF start > stop THEN (start - stop - step - 1) \div (0 - step) ELSE 0)
    IN  [j \in 1..n |-> start + (j - 1) * step]

\* A variant of the slice that starts one element late.
SliceLate(t, i, j) == SubSeq(t, Min(i + 1, Len(t)) + 1, Min(j + 1, Len(t)))

\* t[i:j] for 0 <= i: the elements at 0-based positions i .. j-1, clamped to t.
Slice(t, i, j) == SubSeq(t, Min(i, Len(t)) + 1, Min(j, Len(t)))

\* A variant of the copy that shifts the labels by one block.
ListCopyShifted(l) == IF l = <<>> THEN <<>> ELSE Tail(l) \o <<Head(l)>>

\* l.copy(): a new outer list holding the same elements (the same addresses).
ListCopy(l) == [i \in 1..Len(l) |-> l[i]]

\* A variant of item assignment that keeps the value of a key already present.
SetDefault(d, k, v) == [x \in DOMAIN d \cup {k} |-> IF x \in DOMAIN d THEN d[x] ELSE v]

\* d[k] = v
SetItem(d, k, v) == [x \in DOMAIN d \cup {k} |-> IF x = k THEN v ELSE d[x]]

\* The position of field k in the key order.
IndexOf(keys, k) == CHOOSE i \in 1..Len(keys) : keys[i] = k

----------------------------------------------------------------------------
\* The tokenized dataset and its batches.

RECURSIVE SumLen(_, _)
SumLen(shape, g) == IF g = 0 THEN 0 ELSE shape[g] + SumLen(shape, g - 1)

\* The record lengths a dataset may have.
Shapes == UNION {[1..n -> 0..MaxRecLen] : n \in 1..MaxRecords}

\* tokenizer(examples[text_column_name]): per record the token ids and an
\* attention mask of ones of the same length.  Every position of the dataset
\* carries a different token id, so that a lost, repeated or moved element shows.
Tokenize(shape) ==
    [k \in {"input_ids", "attention_mask"} |->
        [g \in 1..Len(shape) |->
            [i \in 1..shape[g] |->
                IF k = "input_ids" THEN SumLen(shape, g - 1) + i ELSE 1]]]

NumRecords == Len(tokenized_datasets[features[1]])

\* map(batched=True) hands the records to the function in consecutive batches.
Shards == 1..((NumRecords + BatchSize - 1) \div BatchSize)

\* The batch of field k handed to invocation s, by value.
BatchValues(s, k) ==
    SubSeq(tokenized_datasets[k], (s - 1) * BatchSize + 1, Min(s * BatchSize, NumRecords))

\* The address of record g of the f-th field.
InputAddr(nf, g, f) == <<0, (g - 1) * nf + f>>

\* The batches map builds from the dataset ds whose fields are keys, in order:
\* every record a list of its own, no invocation started.
InitDataOf(keys, ds) ==
        LET nf == Len(keys)
            n  == Len(ds[keys[1]])
            nb == (n + BatchSize - 1) \div BatchSize
        IN  /\ features = keys
            /\ tokenized_datasets = ds
            /\ examples = [s \in 1..nb |->
                    [k \in DOMAIN ds |->
                        [r \in 1..(Min(s * BatchSize, n) - (s - 1) * BatchSize) |->
                            InputAddr(nf, (s - 1) * BatchSize + r, IndexOf(keys, k))]]]
            /\ heap = [a \in {InputAddr(nf, g, f) : g \in 1..n, f \in 1..nf} |->
                    ds[keys[((a[2] - 1) % nf) + 1]][((a[2] - 1) \div nf) + 1]]
            /\ pc = [s \in 1..nb |-> "idle"]
            /\ map_runs = 1
            /\ allocated = [s \in 1..nb |-> 0]
            /\ concatenated_examples = [s \in 1..nb |-> <<>>]
            /\ total_length = [s \in 1..nb |-> 0]
            /\ result = [s \in 1..nb |-> <<>>]
            /\ bound = [s \in 1..nb |-> {}]
            /\ error = [s \in 1..nb |-> "none"]
            /\ returned = [s \in 1..nb |-> <<>>]
            /\ outputs = [s \in 1..nb |-> <<>>]

\* The dataset the tokenizer produced, of any shape.
InitData(keys) == \E shape \in Shapes : InitDataOf(keys, Tokenize(shape))

\* The notebook while its map call runs, as written: both flags set, S3 channels,
\* nothing staged yet.
InitMapCell ==
    /\ cell = <<"group">>
    /\ exception = "none"
    /\ model_max_length = block_size
    /\ use_fsx = FALSE
    /\ hyperparameters = [k \in {"do_train", "do_eval"} |-> TRUE]
    /\ splits = {"train", "validation"}
    /\ short_batch = FALSE
    /\ globals = <<>>
    /\ files = {}
    /\ s3 = {}
    /\ experiments = {}
    /\ calls = <<>>

\* The notebook as written: block_size is positive and map runs one call at a time.
Init ==
    /\ block_size \in 1..MaxBlock
    /\ num_proc = 1
    /\ InitData(<<"input_ids", "attention_mask">>)
    /\ InitMapCell

\* map with num_proc > 1 (the commented-out argument of the map call).
InitConcurrent ==
    /\ block_size \in 1..MaxBlock
    /\ num_proc = NumProc
    /\ InitData(<<"input_ids", "attention_mask">>)
    /\ InitMapCell

\* group_texts under any value of the global block_size.
InitAnyBlockSize ==
    /\ block_size \in (0 - MaxBlock)..MaxBlock
    /\ num_proc = 1
    /\ InitData(<<"input_ids", "attention_mask">>)
    /\ InitMapCell

\* A dataset whose fields disagree: the last record of attention_mask has m
\* entries whatever the number of its token ids.
Misalign(shape, m) ==
    [Tokenize(shape) EXCEPT !["attention_mask"][Len(shape)] = [i \in 1..m |-> 1]]

\* group_texts on fields of different lengths, either field first in the dictionary.
InitMisaligned ==
    /\ block_size \in 1..MaxBlock
    /\ num_proc = 1
    /\ \E keys \in {<<"input_ids", "attention_mask">>, <<"attention_mask", "input_ids">>} :
       \E shape \in Shapes :
       \E m \in 0..MaxRecLen :
            /\ m # shape[Len(shape)]
            /\ InitDataOf(keys, Misalign(shape, m))
    /\ InitMapCell

\* The dataset with a third column named "labels", none of its values a token id.
WithLabels(ds) ==
    [k \in DOMAIN ds \cup {"labels"} |->
        IF k = "labels"
        THEN [g \in 1..Len(ds["input_ids"]) |->
                [i \in 1..Len(ds["input_ids"][g]) |-> 0 - ds["input_ids"][g][i]]]
        ELSE ds[k]]

\* group_texts on examples that already have a field named "labels".
InitLabelled ==
    /\ block_size \in 1..MaxBlock
    /\ num_proc = 1
    /\ \E shape \in Shapes :
            InitDataOf(<<"input_ids", "attention_mask", "labels">>, WithLabels(Tokenize(shape)))
    /\ InitMapCell

----------------------------------------------------------------------------
\* The steps of one invocation of group_texts.

InFlight(s) == pc[s] \notin {"idle", "done", "raised"}

\* A variant in which the name is a module global shared by all invocations.
BindGlobal(f, s, v) == [t \in DOMAIN f |-> v]

\* Assignment to a local of invocation s.
BindLocal(f, s, v) == [f EXCEPT ![s] = v]

\* map calls group_texts on batch s, the batches in order and at most num_proc
\* at a time: a new frame with no local bound.
Call(s) ==
    /\ pc[s] = "idle"
    /\ \A t \in 1..(s - 1) : pc[t] # "idle"
    /\ Cardinality({t \in Shards : InFlight(t)}) < num_proc
    /\ pc' = [pc EXCEPT ![s] = "concat"]
    /\ concatenated_examples' = [concatenated_examples EXCEPT ![s] = <<>>]
    /\ total_length' = [total_length EXCEPT ![s] = 0]
    /\ result' = [result EXCEPT ![s] = <<>>]
    /\ bound' = [bound EXCEPT ![s] = {}]
    /\ error' = [error EXCEPT ![s] = "none"]
    /\ returned' = [returned EXCEPT ![s] = <<>>]
    /\ UNCHANGED <<block_size, num_proc, features, tokenized_datasets, examples,
                   heap, map_runs, allocated, outputs>>

\* The map call is executed again on the same batches, once every invocation
\* of the execution before has ended.
Rerun ==
    /\ map_runs < MaxRuns
    /\ \A s \in Shards : pc[s] \in {"done", "raised"}
    /\ map_runs' = map_runs + 1
    /\ pc' = [s \in Shards |-> "idle"]
    /\ UNCHANGED <<block_size, num_proc, features, tokenized_datasets, examples,
                   heap, allocated, concatenated_examples, total_length, result,
                   bound, error, returned, outputs>>

\* The heap after the fields f.. of the batch have been concatenated, each
\* into a new list at <<s, base + f>>.
RECURSIVE ConcatHeap(_, _, _, _, _, _)
ConcatHeap(h, ex, keys, s, base, f) ==
    IF f > Len(keys) THEN h
    ELSE LET r == PySum(h, ex[keys[f]])
         IN  ConcatHeap(r.heap @@ (<<s, base + f>> :> r.val), ex, keys, s, base, f + 1)

\* concatenated_examples = {k: sum(examples[k], []) for k in examples.keys()}
Concatenate(s) ==
    /\ pc[s] = "concat"
    /\ heap' = ConcatHeap(heap, examples[s], features, s, allocated[s], 1)
    /\ concatenated_examples' = BindLocal(concatenated_examples, s,
            [k \in DOMAIN examples[s] |-> <<s, allocated[s] + IndexOf(features, k)>>])
    /\ allocated' = [allocated EXCEPT ![s] = @ + Len(features)]
    /\ bound' = [bound EXCEPT ![s] = @ \cup {"concatenated_examples"}]
    /\ pc' = [pc EXCEPT ![s] = "len"]
    /\ UNCHANGED <<block_size, num_proc, features, tokenized_datasets, examples,
                   map_runs, total_length, result, error, returned, outputs>>

\* total_length = len(concatenated_examples[list(examples.keys())[0]])
TotalLength(s) ==
    /\ pc[s] = "len"
    /\ total_length' = BindLocal(total_length, s,
            Len(heap[concatenated_examples[s][features[1]]]))
    /\ bound' = [bound EXCEPT ![s] = @ \cup {"total_length"}]
    /\ pc' = [pc EXCEPT ![s] = "test"]
    /\ UNCHANGED <<block_size, num_proc, features, tokenized_datasets, examples,
                   heap, map_runs, allocated, concatenated_examples, result, error,
                   returned, outputs>>

\* if total_length >= block_size:
TestLength(s) ==
    /\ pc[s] = "test"
    /\ pc' = [pc EXCEPT ![s] = IF total_length[s] >= block_size THEN "trunc" ELSE "labels"]
    /\ UNCHANGED <<block_size, num_proc, features, tokenized_datasets, examples,
                   heap, map_runs, allocated, concatenated_examples, total_length,
                   result, bound, error, returned, outputs>>

\* total_length = (total_length // block_size) * block_size
Truncate(s) ==
    /\ pc[s] = "trunc"
    /\ IF block_size = 0
       THEN /\ pc' = [pc EXCEPT ![s] = "raised"]
            /\ error' = [error EXCEPT ![s] = "ZeroDivisionError"]
            /\ outputs' = [outputs EXCEPT ![s] =
                    Append(@, [error |-> "ZeroDivisionError", value |-> <<>>])]
            /\ UNCHANGED total_length
       ELSE /\ pc' = [pc EXCEPT ![s] = "split"]
            /\ total_length' = BindLocal(total_length, s,
                    UsableLength(total_length[s], block_size))
            /\ UNCHANGED <<error, outputs>>
    /\ UNCHANGED <<block_size, num_proc, features, tokenized_datasets, examples,
                   heap, map_runs, allocated, concatenated_examples, result, bound,
                   returned>>

\* result = {k: [t[i : i + block_size] for i in range(0, total_length, block_size)]
\*           for k, t in concatenated_examples.items()}
\* Block j of the f-th field is a new list at <<s, base + (f - 1) * nb + j>>.
Split(s) ==
    /\ pc[s] = "split"
    /\ LET starts == Range(0, total_length[s], block_size)
           nb     == Len(starts)
           base   == allocated[s]
           nf     == Len(features)
           new    == {<<s, n>> : n \in (base + 1)..(base + nf * nb)}
       IN  /\ heap' = heap @@ [a \in new |->
                    LET f == ((a[2] - base - 1) \div nb) + 1
                        j == ((a[2] - base - 1) % nb) + 1
                    IN  Slice(heap[concatenated_examples[s][features[f]]],
                              starts[j], starts[j] + block_size)]
           /\ result' = BindLocal(result, s,
                    [k \in DOMAIN concatenated_examples[s] |->
                        [j \in 1..nb |-> <<s, base + (IndexOf(features, k) - 1) * nb + j>>]])
           /\ allocated' = [allocated EXCEPT ![s] = @ + nf * nb]
    /\ bound' = [bound EXCEPT ![s] = @ \cup {"result"}]
    /\ pc' = [pc EXCEPT ![s] = "labels"]
    /\ UNCHANGED <<block_size, num_proc, features, tokenized_datasets, examples,
                   map_runs, concatenated_examples, total_length, error, returned,
                   outputs>>

\* result["labels"] = result["input_ids"].copy()
Labels(s) ==
    /\ pc[s] = "labels"
    /\ IF "result" \notin bound[s] \/ "input_ids" \notin DOMAIN result[s]
       THEN LET exc == IF "result" \notin bound[s]
                       THEN "UnboundLocalError" ELSE "KeyError"
            IN  /\ pc' = [pc EXCEPT ![s] = "raised"]
                /\ error' = [error EXCEPT ![s] = exc]
                /\ outputs' = [outputs EXCEPT ![s] =
                        Append(@, [error |-> exc, value |-> <<>>])]
                /\ UNCHANGED result
       ELSE /\ pc' = [pc EXCEPT ![s] = "return"]
            /\ result' = BindLocal(result, s,
                    SetItem(result[s], "labels", ListCopy(result[s]["input_ids"])))
            /\ UNCHANGED <<error, outputs>>
    /\ UNCHANGED <<block_size, num_proc, features, tokenized_datasets, examples,
                   heap, map_runs, allocated, concatenated_examples, total_length,
                   bound, returned>>

\* return result; map writes the returned dictionary out by value.
Return(s) ==
    /\ pc[s] = "return"
    /\ returned' = [returned EXCEPT ![s] = result[s]]
    /\ outputs' = [outputs EXCEPT ![s] =
            Append(@, [error |-> "none", value |-> DerefDict(heap, result[s])])]
    /\ pc' = [pc EXCEPT ![s] = "done"]
    /\ UNCHANGED <<block_size, num_proc, features, tokenized_datasets, examples,
                   heap, map_runs, allocated, concatenated_examples, total_length,
                   result, bound, error>>

Next ==
    \/ \E s \in Shards : Call(s) /\ UNCHANGED nbvars
    \/ \E s \in Shards : Concatenate(s) /\ UNCHANGED nbvars
    \/ \E s \in Shards : TotalLength(s) /\ UNCHANGED nbvars
    \/ \E s \in Shards : TestLength(s) /\ UNCHANGED nbvars
    \/ \E s \in Shards : Truncate(s) /\ UNCHANGED nbvars
    \/ \E s \in Shards : Split(s) /\ UNCHANGED nbvars
    \/ \E s \in Shards : Labels(s) /\ UNCHANGED nbvars
    \/ \E s \in Shards : Return(s) /\ UNCHANGED nbvars
    \/ Rerun /\ UNCHANGED nbvars

Spec == Init /\ [][Next]_vars

SpecConcurrent == InitConcurrent /\ [][Next]_vars

SpecAnyBlockSize == InitAnyBlockSize /\ [][Next]_vars

SpecMisaligned == InitMisaligned /\ [][Next]_vars

SpecLabelled == InitLabelled /\ [][Next]_vars

----------------------------------------------------------------------------
\* The steps of the notebook around the map call.

\* The block size picked for a tokenizer with a larger limit.
DefaultBlockSize == 1024

\* The limits of the tokenizers tried, around the default block size.
ModelMaxLengths ==
    {1, DefaultBlockSize - 1, DefaultBlockSize, DefaultBlockSize + 1, 2 * DefaultBlockSize}

\* The locations the JSON files are copied to.
TrainLocation == "s3://default_bucket/dataset/train/"

ValidationLocation == "s3://default_bucket/dataset/validation/"

\* The name the notebook gives its experiment.
experiment_name == "smp-gptj-tensor-parallel"

\* No map call in progress.
NoMap ==
    /\ num_proc = 1
    /\ features = <<>>
    /\ tokenized_datasets = <<>>
    /\ examples = <<>>
    /\ heap = <<>>
    /\ pc = <<>>
    /\ map_runs = 0
    /\ allocated = <<>>
    /\ concatenated_examples = <<>>
    /\ total_length = <<>>
    /\ result = <<>>
    /\ bound = <<>>
    /\ error = <<>>
    /\ returned = <<>>
    /\ outputs = <<>>

\* The notebook before block_size is chosen (0: not assigned yet), for any
\* tokenizer limit, flags, splits of the tokenized dataset, switch use_fsx and
\* state of the experiment service.
InitNotebook ==
    /\ block_size = 0
    /\ NoMap
    /\ cell = <<"select_block_size">>
    /\ exception = "none"
    /\ model_max_length \in ModelMaxLengths
    /\ use_fsx \in BOOLEAN
    /\ hyperparameters \in [{"do_train", "do_eval"} -> BOOLEAN]
    /\ splits \in SUBSET {"train", "validation"}
    /\ short_batch \in BOOLEAN
    /\ globals = <<>>
    /\ files = {}
    /\ s3 = {}
    /\ experiments \in {{}, {"other"}, {"other", experiment_name}}
    /\ calls = <<>>

\* The step at `at` runs: no exception has stopped the notebook.
Running(at) == cell = at /\ exception = "none"

\* block_size = tokenizer.model_max_length, capped; the branch for a limit of
\* at most the default reads the name args.
SelectBlockSize ==
    /\ Running(<<"select_block_size">>)
    /\ IF model_max_length > DefaultBlockSize
       THEN /\ block_size' = DefaultBlockSize
            /\ cell' = <<"group">>
            /\ UNCHANGED exception
       ELSE IF "args" \notin DOMAIN globals
            THEN /\ block_size' = model_max_length
                 /\ exception' = "NameError"
                 /\ UNCHANGED cell
            ELSE /\ block_size' = Min(model_max_length, model_max_length)
                 /\ cell' = <<"group">>
                 /\ UNCHANGED exception
    /\ UNCHANGED <<gtvars, model_max_length, use_fsx, hyperparameters, splits,
                   short_batch, globals, files, s3, experiments, calls>>

\* lm_datasets = tokenized_datasets.map(group_texts, ...), as one step: it
\* raises when group_texts does, and keeps the splits otherwise.
GroupDatasets ==
    /\ Running(<<"group">>)
    /\ IF short_batch
       THEN /\ exception' = "UnboundLocalError"
            /\ UNCHANGED <<cell, globals>>
       ELSE /\ globals' = SetItem(globals, "lm_datasets", splits)
            /\ cell' = <<"select", "train">>
            /\ UNCHANGED exception
    /\ UNCHANGED <<block_size, gtvars, model_max_length, use_fsx, hyperparameters,
                   splits, short_batch, files, s3, experiments, calls>>

\* The two splits the notebook stages, in the order of its statements, and the
\* names each of them goes by.
Staged == <<"train", "validation">>

Flag(split) == IF split = "train" THEN "do_train" ELSE "do_eval"

DatasetName(split) == IF split = "train" THEN "train_dataset" ELSE "eval_dataset"

JsonFile(split) == IF split = "train" THEN "./training.json" ELSE "./validation.json"

LocationName(split) ==
    IF split = "train" THEN "training_dataset_location" ELSE "validation_dataset_location"

Location(split) == IF split = "train" THEN TrainLocation ELSE ValidationLocation

\* The step after the one for a split: the same step for the next split, or
\* the step `then` after the last split.
After(step, split, then) == IF split = Staged[1] THEN <<step, Staged[2]>> ELSE then

\* A variant that takes every split for present.
InAny(split, names) == TRUE

\* "train" in tokenized_datasets: the split is one of the dataset's.
In(split, names) == split \in names

\* if hyperparameters[flag]: require the split and bind the dataset to it.
SelectSplit(split) ==
    /\ Running(<<"select", split>>)
    /\ IF hyperparameters[Flag(split)]
       THEN IF ~In(split, splits)
            THEN /\ exception' = "ValueError"
                 /\ UNCHANGED <<cell, globals>>
            ELSE /\ globals' = SetItem(globals, DatasetName(split), split)
                 /\ cell' = After("select", split, <<"write", Staged[1]>>)
                 /\ UNCHANGED exception
       ELSE /\ cell' = After("select", split, <<"write", Staged[1]>>)
            /\ UNCHANGED <<exception, globals>>
    /\ UNCHANGED <<block_size, gtvars, model_max_length, use_fsx, hyperparameters,
                   splits, short_batch, files, s3, experiments, calls>>

\* Both locations start as None; then, if hyperparameters[flag]:
\* dataset.to_json(file) and location = the split's S3 prefix.
WriteJson(split) ==
    /\ Running(<<"write", split>>)
    /\ LET g == IF split = Staged[1]
                THEN SetItem(SetItem(globals, LocationName(Staged[1]), "None"),
                             LocationName(Staged[2]), "None")
                ELSE globals
       IN  IF hyperparameters[Flag(split)]
           THEN IF DatasetName(split) \notin DOMAIN g
                THEN /\ exception' = "NameError"
                     /\ globals' = g
                     /\ UNCHANGED <<cell, files, calls>>
                ELSE /\ files' = files \cup {JsonFile(split)}
                     /\ calls' = Append(calls, [op |-> "to_json",
                                                arg |-> <<JsonFile(split)>>, status |-> 0])
                     /\ globals' = SetItem(g, LocationName(split), Location(split))
                     /\ cell' = After("write", split, <<"copy", Staged[1]>>)
                     /\ UNCHANGED exception
           ELSE /\ globals' = g
                /\ cell' = After("write", split, <<"copy", Staged[1]>>)
                /\ UNCHANGED <<exception, files, calls>>
    /\ UNCHANGED <<block_size, gtvars, model_max_length, use_fsx, hyperparameters,
                   splits, short_batch, s3, experiments>>

\* if location is not None: os.system("aws s3 cp file location").  The shell
\* command ends with status 0 and the object in S3, or with another status and
\* nothing copied; os.system returns the status and the notebook drops it.
CopyToS3(split) ==
    /\ Running(<<"copy", split>>)
    /\ IF globals[LocationName(split)] # "None"
       THEN \E status \in {0, 1} :
                /\ status = 0 => JsonFile(split) \in files
                /\ s3' = IF status = 0
                         THEN s3 \cup {<<globals[LocationName(split)], JsonFile(split)>>}
                         ELSE s3
                /\ calls' = Append(calls, [op |-> "os.system",
                                           arg |-> <<"aws s3 cp", JsonFile(split),
                                                     globals[LocationName(split)]>>,
                                           status |-> status])
       ELSE UNCHANGED <<s3, calls>>
    /\ cell' = After("copy", split, <<"rm", Staged[1]>>)
    /\ UNCHANGED <<block_size, gtvars, exception, model_max_length, use_fsx,
                   hyperparameters, splits, short_batch, globals, files, experiments>>

\* if hyperparameters[flag]: os.system("rm file").
RemoveFile(split) ==
    /\ Running(<<"rm", split>>)
    /\ IF hyperparameters[Flag(split)]
       THEN /\ files' = files \ {JsonFile(split)}
            /\ calls' = Append(calls, [op |-> "os.system", arg |-> <<"rm", JsonFile(split)>>,
                                       status |-> IF JsonFile(split) \in files THEN 0 ELSE 1])
       ELSE UNCHANGED <<files, calls>>
    /\ cell' = After("rm", split, <<"bucket_paths">>)
    /\ UNCHANGED <<block_size, gtvars, exception, model_max_length, use_fsx,
                   hyperparameters, splits, short_batch, globals, s3, experiments>>

\* s3_train_bucket = training_dataset_location; s3_test_bucket =
\* validation_dataset_location (the two names as %store kept them).
BucketPaths ==
    /\ Running(<<"bucket_paths">>)
    /\ globals' = SetItem(SetItem(globals, "s3_train_bucket", globals[LocationName("train")]),
                          "s3_test_bucket", globals[LocationName("validation")])
    /\ cell' = <<"s3_channels">>
    /\ UNCHANGED <<block_size, gtvars, exception, model_max_length, use_fsx,
                   hyperparameters, splits, short_batch, files, s3, experiments, calls>>

\* if not use_fsx: the two S3 inputs and data_channels = {"train": train, "test": test}.
S3Channels ==
    /\ Running(<<"s3_channels">>)
    /\ IF ~use_fsx
       THEN globals' =
                SetItem(SetItem(SetItem(globals, "train", globals["s3_train_bucket"]),
                                "test", globals["s3_test_bucket"]),
                        "data_channels",
                        [c \in {"train", "test"} |->
                            IF c = "train" THEN globals["s3_train_bucket"]
                                           ELSE globals["s3_test_bucket"]])
       ELSE UNCHANGED globals
    /\ cell' = <<"fsx_channels">>
    /\ UNCHANGED <<block_size, gtvars, exception, model_max_length, use_fsx,
                   hyperparameters, splits, short_batch, files, s3, experiments, calls>>

\* if use_fsx: the file system input and data_channels = {"train": train, "test": train}.
FsxChannels ==
    /\ Running(<<"fsx_channels">>)
    /\ IF use_fsx
       THEN globals' =
                SetItem(SetItem(SetItem(SetItem(globals, "fsx_security_group_id", "<sg-id>"),
                                        "fsx_subnet", "<subnet-id>"),
                                "train", "</3x8abcde>"),
                        "data_channels", [c \in {"train", "test"} |-> "</3x8abcde>"])
       ELSE UNCHANGED globals
    /\ cell' = <<"hyperparameters">>
    /\ UNCHANGED <<block_size, gtvars, exception, model_max_length, use_fsx,
                   hyperparameters, splits, short_batch, files, s3, experiments, calls>>

\* The entries of the training hyperparameters that later steps read.
TrainingHyperparameters ==
    [k \in {"max_steps", "fp16", "manual_partition", "shard_optimizer_state", "optimize",
            "tensor_parallel_degree", "pipeline_parallel_degree", "train_batch_size",
            "prescaled_batch"} |->
        CASE k = "max_steps" -> 1000
          [] k = "optimize" -> "speed"
          [] k = "manual_partition" -> 0
          [] k = "tensor_parallel_degree" -> 4
          [] k = "train_batch_size" -> 8
          [] OTHER -> 1]

\* hyperparameters = {...}, with the four directories when use_fsx, then the
\* entries of model_params.
SetHyperparameters ==
    /\ Running(<<"hyperparameters">>)
    /\ hyperparameters' =
            IF use_fsx
            THEN SetItem(SetItem(SetItem(SetItem(TrainingHyperparameters,
                    "checkpoint-dir", "/opt/ml/input/data/train/checkpointdir-job2"),
                    "model-dir", "/opt/ml/input/data/train/modeldir-job2"),
                    "training-dir", "/opt/ml/input/data/train/datasets/pytorch_gpt2/train_synthetic"),
                    "test-dir", "/opt/ml/input/data/train/datasets/pytorch_gpt2/val_synthetic")
            ELSE TrainingHyperparameters
    /\ cell' = <<"list_experiments">>
    /\ UNCHANGED <<block_size, gtvars, exception, model_max_length, use_fsx, splits,
                   short_batch, globals, files, s3, experiments, calls>>

\* all_experiment_names = [exp.experiment_name for exp in Experiment.list()].
ListExperiments ==
    /\ Running(<<"list_experiments">>)
    /\ globals' = SetItem(globals, "all_experiment_names", experiments)
    /\ calls' = Append(calls, [op |-> "Experiment.list", arg |-> <<>>, status |-> 0])
    /\ cell' = <<"experiment">>
    /\ UNCHANGED <<block_size, gtvars, exception, model_max_length, use_fsx,
                   hyperparameters, splits, short_batch, files, s3, experiments>>

\* A variant of the test that takes the listed names for the missing ones.
Listed(name, names) == name \in names

\* experiment_name not in all_experiment_names.
NotListed(name, names) == name \notin names

\* Experiment.create when the name is not listed, Experiment.load otherwise.
ObtainExperiment ==
    /\ Running(<<"experiment">>)
    /\ IF NotListed(experiment_name, globals["all_experiment_names"])
       THEN /\ calls' = Append(calls, [op |-> "Experiment.create",
                                       arg |-> <<experiment_name>>, status |-> 0])
            /\ experiments' = experiments \cup {experiment_name}
       ELSE /\ calls' = Append(calls, [op |-> "Experiment.load",
                                       arg |-> <<experiment_name>>, status |-> 0])
            /\ UNCHANGED experiments
    /\ globals' = SetItem(globals, "experiment", experiment_name)
    /\ cell' = <<"trial">>
    /\ UNCHANGED <<block_size, gtvars, exception, model_max_length, use_fsx,
                   hyperparameters, splits, short_batch, files, s3>>

\* trial = Trial.create(trial_name=..., experiment_name=experiment.experiment_name, ...).
CreateTrial ==
    /\ Running(<<"trial">>)
    /\ IF "experiment" \notin DOMAIN globals
       THEN /\ exception' = "NameError"
            /\ UNCHANGED <<cell, globals, calls>>
       ELSE /\ calls' = Append(calls, [op |-> "Trial.create",
                                       arg |-> <<"smp-smp-gptj-tensor-parallel-trial1",
                                                 globals["experiment"]>>,
                                       status |-> 0])
            /\ globals' = SetItem(globals, "trial", "smp-smp-gptj-tensor-parallel-trial1")
            /\ cell' = <<"checkpoint">>
            /\ UNCHANGED exception
    /\ UNCHANGED <<block_size, gtvars, model_max_length, use_fsx, hyperparameters,
                   splits, short_batch, files, s3, experiments>>

\* base_job_name from the hyperparameters; if not use_fsx: checkpoint_s3_uri.
CheckpointUri ==
    /\ Running(<<"checkpoint">>)
    /\ IF {"pipeline_parallel_degree", "tensor_parallel_degree", "train_batch_size"}
                \subseteq DOMAIN hyperparameters
       THEN /\ globals' =
                    IF ~use_fsx
                    THEN SetItem(SetItem(globals, "base_job_name", "smp-gpt-j-6B-p4d24x-tp4-pp1-bs8"),
                                 "checkpoint_s3_uri",
                                 "s3://sagemaker-region-account//experiments/gptj_synthetic_simpletrainer_checkpoints/smp-gpt-j-6B-p4d24x-tp4-pp1-bs8/")
                    ELSE SetItem(globals, "base_job_name", "smp-gpt-j-6B-p4d24x-tp4-pp1-bs8")
            /\ cell' = <<"estimator">>
            /\ UNCHANGED exception
       ELSE /\ exception' = "KeyError"
            /\ UNCHANGED <<cell, globals>>
    /\ UNCHANGED <<block_size, gtvars, model_max_length, use_fsx, hyperparameters,
                   splits, short_batch, files, s3, experiments, calls>>

\* The names an expression reads that are not bound, and the keys it reads
\* that its dictionary lacks: what makes its evaluation raise.
Missing(reads, have) == reads \ have

\* checkpoint_s3_uri if not use_fsx else None: the name is read only when
\* use_fsx is false.
CheckpointS3Arg(fsx, g) ==
    IF ~fsx
    THEN IF "checkpoint_s3_uri" \in DOMAIN g THEN g["checkpoint_s3_uri"] ELSE "NameError"
    ELSE "None"

\* A variant that passes the directory whenever the dictionary has one, and
\* the estimator's own default otherwise.
CheckpointLocalAlways(fsx, hp) ==
    IF "checkpoint-dir" \in DOMAIN hp THEN hp["checkpoint-dir"] ELSE "/opt/ml/checkpoints"

\* hyperparameters["checkpoint-dir"] if use_fsx else None: the key is read only
\* when use_fsx is true.
CheckpointLocalArg(fsx, hp) ==
    IF fsx
    THEN IF "checkpoint-dir" \in DOMAIN hp THEN hp["checkpoint-dir"] ELSE "KeyError"
    ELSE "None"

\* kwargs from the FSx names when use_fsx, then smp_estimator = HuggingFace(...).
CreateEstimator ==
    /\ Running(<<"estimator">>)
    /\ LET reads == IF use_fsx THEN {"fsx_security_group_id", "fsx_subnet", "base_job_name"}
                               ELSE {"base_job_name"}
           uri   == CheckpointS3Arg(use_fsx, globals)
           path  == CheckpointLocalArg(use_fsx, hyperparameters)
       IN  IF Missing(reads, DOMAIN globals) # {} \/ uri = "NameError"
           THEN /\ exception' = "NameError"
                /\ UNCHANGED <<cell, globals, calls>>
           ELSE IF path = "KeyError"
           THEN /\ exception' = "KeyError"
                /\ UNCHANGED <<cell, globals, calls>>
           ELSE /\ calls' = Append(calls, [op |-> "HuggingFace", arg |-> <<uri, path>>,
                                           status |-> 0])
                /\ globals' = SetItem(globals, "smp_estimator",
                                      [checkpoint_s3_uri |-> uri, checkpoint_local_path |-> path])
                /\ cell' = <<"fit">>
                /\ UNCHANGED exception
    /\ UNCHANGED <<block_size, gtvars, model_max_length, use_fsx, hyperparameters,
                   splits, short_batch, files, s3, experiments>>

\* smp_estimator.fit(inputs=data_channels, experiment_config={...}).
Fit ==
    /\ Running(<<"fit">>)
    /\ IF Missing({"smp_estimator", "data_channels", "experiment", "trial"}, DOMAIN globals) # {}
       THEN /\ exception' = "NameError"
            /\ UNCHANGED <<cell, calls>>
       ELSE /\ calls' = Append(calls, [op |-> "fit",
                                       arg |-> <<globals["data_channels"], globals["experiment"],
                                                 globals["trial"]>>,
                                       status |-> 0])
            /\ cell' = <<"end">>
            /\ UNCHANGED exception
    /\ UNCHANGED <<block_size, gtvars, model_max_length, use_fsx, hyperparameters,
                   splits, short_batch, globals, files, s3, experiments>>

NextNotebook ==
    \/ SelectBlockSize
    \/ GroupDatasets
    \/ \E split \in {"train", "validation"} : SelectSplit(split)
    \/ \E split \in {"train", "validation"} : WriteJson(split)
    \/ \E split \in {"train", "validation"} : CopyToS3(split)
    \/ \E split \in {"train", "validation"} : RemoveFile(split)
    \/ BucketPaths
    \/ S3Channels
    \/ FsxChannels
    \/ SetHyperparameters
    \/ ListExperiments
    \/ ObtainExperiment
    \/ CreateTrial
    \/ CheckpointUri
    \/ CreateEstimator
    \/ Fit

SpecNotebook == InitNotebook /\ [][NextNotebook]_vars

----------------------------------------------------------------------------
\* group_texts run alone on a batch given by value: the outcome of the call.
GroupTextsValue(ex, keys, bs) ==
    LET concat == [k \in DOMAIN ex |-> Flatten(ex[k])]
        total  == Len(concat[keys[1]])
    IN  IF total >= bs
        THEN IF bs = 0
             THEN [error |-> "ZeroDivisionError", value |-> <<>>]
             ELSE LET starts == Range(0, UsableLength(total, bs), bs)
                      res    == [k \in DOMAIN concat |->
                                    [j \in 1..Len(starts) |->
                                        Slice(concat[k], starts[j], starts[j] + bs)]]
                  IN  [error |-> "none",
                       value |-> SetItem(res, "labels", ListCopy(res["input_ids"]))]
        ELSE [error |-> "UnboundLocalError", value |-> <<>>]

----------------------------------------------------------------------------
\* What the properties below speak about.

\* The invocation on batch s has ended, by return or by an exception.
Finished(s) == pc[s] \in {"done", "raised"}

\* The in-order concatenation of the records of field k of batch s.
Concatenation(s, k) == Flatten(BatchValues(s, k))

\* L: the concatenated length of the batch.
ConcatLen(s) == Len(Concatenation(s, "input_ids"))

\* The dictionary returned by the invocation on batch s, as it is in memory now.
Output(s) == DerefDict(heap, returned[s])

\* The input field names.
Fields == {features[f] : f \in 1..Len(features)}

\* The addresses of the records handed to the invocations.
InputAddrs == {a \in DOMAIN heap : a[1] = 0}

----------------------------------------------------------------------------
\* C1: for every batch whose fields concatenate to the same length L and every
\* block_size B > 0, group_texts returns, for every field, exactly L \div B
\* blocks, each of exactly B elements.
C1_BlockCountAndLength ==
    \A s \in Shards :
        Finished(s) =>
            /\ pc[s] = "done"
            /\ \A k \in Fields :
                /\ k \in DOMAIN Output(s)
                /\ Len(Output(s)[k]) = ConcatLen(s) \div block_size
                /\ \A j \in 1..Len(Output(s)[k]) : Len(Output(s)[k][j]) = block_size

\* C2: in every returned output, block j of input field k is the slice
\* [(j-1)*B, j*B) of the in-order concatenation of the records of k, and the
\* blocks of k in order are the first (L \div B) * B elements of it.
C2_BlocksAreSlices ==
    \A s \in Shards :
        pc[s] = "done" =>
            \A k \in Fields :
                /\ \A j \in 1..Len(Output(s)[k]) :
                        Output(s)[k][j] =
                            SubSeq(Concatenation(s, k),
                                   (j - 1) * block_size + 1, j * block_size)
                /\ Flatten(Output(s)[k]) =
                        SubSeq(Concatenation(s, k), 1,
                               (ConcatLen(s) \div block_size) * block_size)

\* A call has returned two or more blocks, one of them made of elements of two records.
C2_Witness ==
    \E s \in Shards :
        /\ pc[s] = "done"
        /\ Len(Output(s)["input_ids"]) >= 2
        /\ Len(BatchValues(s, "input_ids")) = 2
        /\ Len(BatchValues(s, "input_ids")[1]) % block_size # 0

\* C3: when L < B, group_texts returns normally a dictionary in which every
\* field, and "labels", has zero blocks.
C3_ShortInputGivesNoBlocks ==
    \A s \in Shards :
        (Finished(s) /\ ConcatLen(s) < block_size) =>
            /\ pc[s] = "done"
            /\ error[s] = "none"
            /\ \A k \in Fields \cup {"labels"} :
                k \in DOMAIN Output(s) /\ Output(s)[k] = <<>>

\* C4: after group_texts has returned, writing an element of a "labels" block in
\* place leaves every "input_ids" block as it was, and writing an element of an
\* "input_ids" block leaves every "labels" block as it was.
C4_LabelsHaveOwnStorage ==
    \A s \in Shards :
        pc[s] = "done" =>
            \A j \in 1..Len(returned[s]["labels"]) :
                \A i \in 1..Len(heap[returned[s]["labels"][j]]) :
                    /\ Deref([heap EXCEPT ![returned[s]["labels"][j]][i] = 0],
                             returned[s]["input_ids"])
                        = Deref(heap, returned[s]["input_ids"])
                    /\ Deref([heap EXCEPT ![returned[s]["input_ids"][j]][i] = 0],
                             returned[s]["labels"])
                        = Deref(heap, returned[s]["labels"])

\* C5: when block_size <= 0, group_texts fails with InvalidArgument before it
\* allocates anything: it never divides by zero and never returns a result.
C5_BadBlockSizeFailsFast ==
    block_size <= 0 =>
        \A s \in Shards :
            /\ allocated[s] = 0
            /\ pc[s] # "done"
            /\ error[s] # "ZeroDivisionError"
            /\ Finished(s) => error[s] = "InvalidArgument"

\* C6: in every returned output "labels" has as many blocks as "input_ids", and
\* labels[j][i] = input_ids[j][i] at every block j and position i.
C6_LabelsEqualInputIds ==
    \A s \in Shards :
        pc[s] = "done" =>
            /\ "labels" \in DOMAIN Output(s)
            /\ Len(Output(s)["labels"]) = Len(Output(s)["input_ids"])
            /\ \A j \in 1..Len(Output(s)["input_ids"]) :
                /\ Len(Output(s)["labels"][j]) = Len(Output(s)["input_ids"][j])
                /\ \A i \in 1..Len(Output(s)["input_ids"][j]) :
                        Output(s)["labels"][j][i] = Output(s)["input_ids"][j][i]

\* A call has returned two or more blocks of labels.
C6_Witness ==
    \E s \in Shards :
        /\ pc[s] = "done"
        /\ Len(Output(s)["labels"]) >= 2
        /\ Len(Output(s)["labels"][1]) >= 2

\* C7: every returned output holds, per field, the concatenation without its
\* last L % B elements, in blocks of exactly B elements (nothing is padded);
\* when L is a multiple of B nothing is dropped.
C7_DropsTrailingRemainder ==
    \A s \in Shards :
        pc[s] = "done" =>
            \A k \in Fields :
                LET L    == ConcatLen(s)
                    kept == Flatten(Output(s)[k])
                IN  /\ Len(kept) = L - (L % block_size)
                    /\ kept \o SubSeq(Concatenation(s, k), L - (L % block_size) + 1, L)
                            = Concatenation(s, k)
                    /\ \A j \in 1..Len(Output(s)[k]) : Len(Output(s)[k][j]) = block_size
                    /\ (L % block_size = 0) => kept = Concatenation(s, k)

\* One call has returned after dropping a remainder and another after dropping nothing.
C7_Witness ==
    /\ \E s \in Shards :
        /\ pc[s] = "done"
        /\ ConcatLen(s) % block_size # 0
        /\ Output(s)["input_ids"] # <<>>
    /\ \E s \in Shards :
        /\ pc[s] = "done"
        /\ ConcatLen(s) % block_size = 0
        /\ Output(s)["input_ids"] # <<>>

\* C8: no step of group_texts changes block_size, the field names of its
\* input, or any record of any field of its input; and how a call ends is
\* decided by its batch and block_size alone.
C8_InputsUnchanged ==
    /\ [](\A s \in Shards :
            \A n \in 1..Len(outputs[s]) :
                outputs[s][n] =
                    GroupTextsValue([k \in Fields |-> BatchValues(s, k)],
                                    features, block_size))
    /\ [][/\ block_size' = block_size
          /\ examples' = examples
          /\ \A a \in InputAddrs : a \in DOMAIN heap' /\ heap'[a] = heap[a]
          /\ \A s \in Shards :
                /\ DOMAIN examples'[s] = Fields
                /\ \A k \in Fields :
                        Deref(heap', examples'[s][k]) = BatchValues(s, k)]_vars

\* A call on a batch of two non-empty records has returned blocks.
C8_Witness ==
    \E s \in Shards :
        /\ pc[s] = "done"
        /\ Len(BatchValues(s, "input_ids")) = 2
        /\ \A r \in 1..2 : BatchValues(s, "input_ids")[r] # <<>>
        /\ Output(s)["input_ids"] # <<>>

\* C9: two calls of group_texts on the same batch with the same block_size end
\* the same way, with the same field names and the same blocks.
C9_SameOutputTwice ==
    \A s \in Shards :
        \A m, n \in 1..Len(outputs[s]) : outputs[s][m] = outputs[s][n]

\* A batch of two non-empty records has been grouped twice, blocks returned both times.
C9_Witness ==
    \E s \in Shards :
        /\ Len(outputs[s]) = 2
        /\ outputs[s][2].error = "none"
        /\ outputs[s][2].value["input_ids"] # <<>>
        /\ Len(BatchValues(s, "input_ids")) = 2
        /\ \A r \in 1..2 : BatchValues(s, "input_ids")[r] # <<>>

\* C10: under every interleaving of the invocations on disjoint batches, each
\* call ends as the call run alone on its batch does, and the lists an
\* invocation holds in its locals are its own.
C10_ConcurrentAsAlone ==
    \A s \in Shards :
        /\ outputs[s] # <<>> =>
                LET alone == GroupTextsValue([k \in Fields |-> BatchValues(s, k)],
                                             features, block_size)
                IN  \A n \in 1..Len(outputs[s]) : outputs[s][n] = alone
        /\ \A k \in DOMAIN concatenated_examples[s] :
                concatenated_examples[s][k][1] = s
        /\ \A k \in DOMAIN result[s] :
                \A j \in 1..Len(result[s][k]) : result[s][k][j][1] = s

\* Two invocations are in flight at once, each about to return blocks.
C10_Witness ==
    \E s, t \in Shards :
        /\ s # t
        /\ pc[s] = "return"
        /\ pc[t] = "return"
        /\ result[s]["input_ids"] # <<>>
        /\ result[t]["input_ids"] # <<>>

\* C11: on misaligned input (fields whose concatenations differ in length)
\* group_texts raises no error; when the first field's concatenation has
\* L0 >= block_size elements every output field has floor(L0 / block_size)
\* blocks, and a field shorter than L0 has a block of fewer than block_size
\* elements.
C11_MisalignedInputGivesBlocks ==
    \A s \in Shards :
        LET L0 == Len(Concatenation(s, features[1]))
        IN  (Finished(s) /\ \E k \in Fields : Len(Concatenation(s, k)) # L0) =>
                /\ pc[s] = "done"
                /\ error[s] = "none"
                /\ L0 >= block_size =>
                        \A k \in Fields :
                            /\ Len(Output(s)[k]) = L0 \div block_size
                            /\ Len(Concatenation(s, k)) < L0 =>
                                    \E j \in 1..Len(Output(s)[k]) :
                                        Len(Output(s)[k][j]) < block_size

----------------------------------------------------------------------------
\* Claims about the steps of the notebook.

\* The places in calls of the calls of operation op.
CallsOf(op) == {i \in 1..Len(calls) : calls[i].op = op}

\* The places in calls of the shell commands `verb file`.
Commands(verb, file) ==
    {i \in CallsOf("os.system") : calls[i].arg[1] = verb /\ calls[i].arg[2] = file}

\* C13: the choice of block_size ends without error for every positive
\* model_max_length and leaves block_size = min(model_max_length, 1024),
\* which is at least 1.
C13_BlockSizeSelected ==
    /\ cell = <<"select_block_size">> => exception = "none"
    /\ cell # <<"select_block_size">> =>
            /\ block_size = Min(model_max_length, DefaultBlockSize)
            /\ block_size >= 1

\* C14: for each split the JSON file is written, then its copy to S3 is
\* issued, then it is removed; each of the three happens only when the
\* split's flag is set; and a file is removed only after its copy to S3
\* succeeded.
C14_WriteCopyRemove ==
    \A split \in {"train", "validation"} :
        LET written == {i \in CallsOf("to_json") : calls[i].arg[1] = JsonFile(split)}
            copied  == Commands("aws s3 cp", JsonFile(split))
            removed == Commands("rm", JsonFile(split))
        IN  /\ \A i \in copied : \E j \in written : j < i
            /\ \A i \in removed : \E j \in copied : j < i
            /\ Flag(split) \in DOMAIN hyperparameters =>
                    (written \cup copied \cup removed # {} => hyperparameters[Flag(split)])
            /\ \A i \in removed : \E j \in copied : j < i /\ calls[j].status = 0

\* C15: exactly one of Experiment.create and Experiment.load is called, create
\* when experiment_name is not among the listed names and load when it is;
\* Trial.create is called only after that call, with that experiment's name.
C15_CreateOrLoadThenTrial ==
    LET obtained == CallsOf("Experiment.create") \cup CallsOf("Experiment.load")
    IN  /\ Cardinality(obtained) <= 1
        /\ "experiment" \in DOMAIN globals => Cardinality(obtained) = 1
        /\ \A i \in CallsOf("Experiment.create") :
                experiment_name \notin globals["all_experiment_names"]
        /\ \A i \in CallsOf("Experiment.load") :
                experiment_name \in globals["all_experiment_names"]
        /\ \A i \in CallsOf("Trial.create") :
                \E j \in obtained : j < i /\ calls[i].arg[2] = calls[j].arg[1]

\* C15's case: the experiment was not listed, was created, and the trial was
\* created in it.
C15_Witness ==
    /\ CallsOf("Experiment.create") # {}
    /\ CallsOf("Trial.create") # {}

\* C16: when do_train is set and there is no "train" split, or do_eval is set
\* and there is no "validation" split, the step that selects the split raises
\* ValueError, and then no dataset file has been written, copied or removed.
C16_MissingSplitRaises ==
    /\ [][\A split \in {"train", "validation"} :
            (/\ Running(<<"select", split>>)
             /\ hyperparameters[Flag(split)]
             /\ split \notin splits) => exception' = "ValueError"]_vars
    /\ [](exception = "ValueError" => calls = <<>> /\ files = {} /\ s3 = {})

\* C16's case: do_eval is set, the training split was selected and the
\* validation split is missing; the selection has raised.
C16_Witness ==
    /\ exception = "ValueError"
    /\ cell = <<"select", "validation">>
    /\ "train_dataset" \in DOMAIN globals

\* C17: the estimator is given exactly one checkpoint location that is not
\* None, checkpoint_s3_uri when use_fsx is false and checkpoint_local_path when
\* it is true; and the data_channels fit is called with have both "train" and
\* "test".
C17_OneCheckpointLocation ==
    /\ \A i \in CallsOf("HuggingFace") :
            /\ (calls[i].arg[1] = "None") # (calls[i].arg[2] = "None")
            /\ use_fsx <=> calls[i].arg[1] = "None"
    /\ cell = <<"fit">> =>
            /\ "data_channels" \in DOMAIN globals
            /\ {"train", "test"} \subseteq DOMAIN globals["data_channels"]
    /\ \A i \in CallsOf("fit") : {"train", "test"} \subseteq DOMAIN calls[i].arg[1]
    /\ cell \in {<<"estimator">>, <<"fit">>} => exception = "none"

\* C17's case: fit has been called with the FSx channels.
C17_Witness ==
    /\ use_fsx
    /\ CallsOf("HuggingFace") # {}
    /\ CallsOf("fit") # {}

====
